---- MODULE Spec2Model ----
(***************************************************************************)
(* Model of src/src/workman.rs: the Zed extension that resolves the launch *)
(* command of the Workman language server (interpreter, server paths,      *)
(* arguments, environment) from the host's settings document, the          *)
(* WORKMAN_ROOT environment variable, PATH, the worktree and the platform. *)
(*                                                                         *)
(* Text (a Rust String / PathBuf) is a sequence of chunks: the separator   *)
(* "/" or a separator-free piece of text; the empty sequence is the empty  *)
(* string.  The paths drawn for serverPath, serverRoot and WORKMAN_ROOT    *)
(* are all texts over the separator and one name chunk (no "." or "..").   *)
(* Option<T> is a sequence of length 0 (None) or 1 (Some).                 *)
(* Result<T, String> is a record [ok, v].                                  *)
(***************************************************************************)
EXTENDS Naturals, Sequences, FiniteSets

\* ------------------------------------------------------------------ bounds
\* longest settings.serverPath drawn, in chunks
MaxPathLen == 5
\* longest settings.serverRoot / WORKMAN_ROOT drawn, in chunks
MaxRootLen == 2

\* ------------------------------------------------------- Option and Result
None == <<>>
Some(x) == <<x>>
IsSome(o) == Len(o) = 1
IsNone(o) == Len(o) = 0
Unwrap(o) == o[1]

Ok(x) == [ok |-> TRUE, v |-> x]
Err(e) == [ok |-> FALSE, v |-> e]

\* -------------------------------------------------------------------- text
SEP == "/"
Chars == {SEP, "a"}
TextsUpTo(n) == UNION {[1..k -> Chars] : k \in 0..n}
Lit(s) == <<s>>

\* ------------------------------------------------------ std::path on WASI
\* Components::len_before_body: 1 when the path has a root, else 0.
RootLen(p) == IF Len(p) > 0 /\ p[1] = SEP THEN 1 ELSE 0

\* Components::trim_right: drop trailing separators, never the root itself.
RECURSIVE TrimRight(_)
TrimRight(p) ==
    IF Len(p) > RootLen(p) /\ p[Len(p)] = SEP
    THEN TrimRight(SubSeq(p, 1, Len(p) - 1))
    ELSE p

\* The last component's text removed (parse_next_component_back).
RECURSIVE DropLastComponent(_)
DropLastComponent(p) ==
    IF Len(p) > 0 /\ p[Len(p)] # SEP
    THEN DropLastComponent(SubSeq(p, 1, Len(p) - 1))
    ELSE p

\* Path::parent: None when the path ends in a root or is empty, else the
\* path without its last component.
Parent(p) ==
    LET t == TrimRight(p) IN
    IF Len(t) = RootLen(t)
    THEN None
    ELSE Some(TrimRight(DropLastComponent(t)))

\* Path::join / PathBuf::push: an absolute component replaces the buffer; a
\* separator is added only after a non-empty buffer not ending in one.
Join(buf, c) ==
    IF Len(c) > 0 /\ c[1] = SEP THEN c
    ELSE IF Len(buf) > 0 /\ buf[Len(buf)] # SEP THEN buf \o <<SEP>> \o c
    ELSE buf \o c

\* to_string_lossy().to_string(): every path here is built from Rust
\* Strings (valid UTF-8), for which the conversion returns the same text.
to_string_lossy(p) == p

\* --------------------------------------------------------- serde_json
JString(t) == [kind |-> "string", s |-> t]
JNumber == [kind |-> "number", s |-> <<>>]
JObject(f) == [kind |-> "object", fields |-> f]
\* Value::get(key): Some only on an object holding the key.
Get(value, key) ==
    IF value.kind = "object" /\ key \in DOMAIN value.fields
    THEN Some(value.fields[key])
    ELSE None
\* Value::as_str: Some only on a JSON string.
as_str(value) == IF value.kind = "string" THEN Some(value.s) ELSE None
\* settings.get(key).and_then(|value| value.as_str())
GetStr(value, key) ==
    LET g == Get(value, key) IN
    IF IsSome(g) THEN as_str(Unwrap(g)) ELSE None

\* ------------------------------------------------------------ the world
VARIABLES
    lspSettings,     \* LspSettings::for_worktree("workman-lsp", worktree)
    workmanRoot,     \* env::var("WORKMAN_ROOT")
    whichDeno,       \* worktree.which("deno")
    serverReadable,  \* worktree.read_text_file("lsp/server/src/server.ts").is_ok()
    rootPath,        \* worktree.root_path()
    platform,        \* zed::current_platform().0
    shellEnv,        \* worktree.shell_env()
    ret              \* what the last call of the extension returned

inputs == <<lspSettings, workmanRoot, whichDeno, serverReadable, rootPath,
            platform, shellEnv>>
vars == <<lspSettings, workmanRoot, whichDeno, serverReadable, rootPath,
          platform, shellEnv, ret>>

LanguageServerIds == {"workman-lsp", "workman-lsp-2"}

\* ------------------------------------------------------ WorkmanExtension
\* format!("{language_server_id}: could not find deno on PATH")
BinaryNotFound(language_server_id) ==
    <<language_server_id, ": could not find deno on PATH">>

\* format!("Workman LSP not found at {}", server_path)
ServerNotFound(server_path) == <<"Workman LSP not found at ">> \o server_path

\* Variant: PATH is searched before the settings are looked at.
resolve_deno_binary_which_first(language_server_id) ==
    IF IsSome(whichDeno)
    THEN Ok(Unwrap(whichDeno))
    ELSE IF lspSettings.ok
            /\ IsSome(lspSettings.v.binary)
            /\ IsSome(Unwrap(lspSettings.v.binary).path)
         THEN Ok(Unwrap(Unwrap(lspSettings.v.binary).path))
         ELSE Err(BinaryNotFound(language_server_id))

\* Variant: a failed PATH search yields the empty default (unwrap_or_default)
\* in place of the error.
resolve_deno_binary_or_default(language_server_id) ==
    IF lspSettings.ok
       /\ IsSome(lspSettings.v.binary)
       /\ IsSome(Unwrap(lspSettings.v.binary).path)
    THEN Ok(Unwrap(Unwrap(lspSettings.v.binary).path))
    ELSE IF IsSome(whichDeno)
         THEN Ok(Unwrap(whichDeno))
         ELSE Ok(<<>>)

resolve_deno_binary(language_server_id) ==
    IF lspSettings.ok
       /\ IsSome(lspSettings.v.binary)
       /\ IsSome(Unwrap(lspSettings.v.binary).path)
    THEN Ok(Unwrap(Unwrap(lspSettings.v.binary).path))
    ELSE IF IsSome(whichDeno)
         THEN Ok(Unwrap(whichDeno))
         ELSE Err(BinaryNotFound(language_server_id))

paths_from_root(root) ==
    LET deno_config == Join(Join(Join(root, Lit("lsp")), Lit("server")),
                            Lit("deno.json"))
        server_path == Join(Join(Join(Join(root, Lit("lsp")), Lit("server")),
                                 Lit("src")), Lit("server.ts"))
    IN  <<to_string_lossy(deno_config), to_string_lossy(server_path)>>

\* Variant: the existence probe is left out.
paths_from_worktree_unchecked == Ok(paths_from_root(rootPath))

paths_from_worktree ==
    LET p == paths_from_root(rootPath) IN
    IF ~serverReadable
    THEN Err(ServerNotFound(p[2]))
    ELSE Ok(p)

\* Variant: the config is looked for one level up from the script.
server_path_branch_one_level(settings, server_path) ==
    LET dc == GetStr(settings, "denoConfig")
        p1 == Parent(server_path)
        deno_config ==
            IF IsSome(dc) THEN Unwrap(dc)
            ELSE IF IsSome(p1) THEN Join(Unwrap(p1), Lit("deno.json"))
            ELSE Lit("deno.json")
    IN  <<to_string_lossy(deno_config), to_string_lossy(server_path)>>

\* The serverPath branch: denoConfig, else two levels up from the script.
server_path_branch(settings, server_path) ==
    LET dc == GetStr(settings, "denoConfig")
        p1 == Parent(server_path)
        p2 == IF IsSome(p1) THEN Parent(Unwrap(p1)) ELSE None
        deno_config ==
            IF IsSome(dc) THEN Unwrap(dc)
            ELSE IF IsSome(p2) THEN Join(Unwrap(p2), Lit("deno.json"))
            ELSE Lit("deno.json")
    IN  <<to_string_lossy(deno_config), to_string_lossy(server_path)>>

\* Variant: serverRoot is looked at before serverPath.
resolve_server_paths_root_first ==
    LET settings == IF lspSettings.ok THEN lspSettings.v.settings ELSE None
        sp == IF IsSome(settings) THEN GetStr(Unwrap(settings), "serverPath")
              ELSE None
        sr == IF IsSome(settings) THEN GetStr(Unwrap(settings), "serverRoot")
              ELSE None
    IN  IF IsSome(sr) THEN Ok(paths_from_root(Unwrap(sr)))
        ELSE IF IsSome(sp) THEN Ok(server_path_branch(Unwrap(settings), Unwrap(sp)))
        ELSE IF workmanRoot.ok THEN Ok(paths_from_root(workmanRoot.v))
        ELSE paths_from_worktree

\* Variant: the WORKMAN_ROOT branch probes the worktree like the default one.
resolve_server_paths_env_checked ==
    LET settings == IF lspSettings.ok THEN lspSettings.v.settings ELSE None
        sp == IF IsSome(settings) THEN GetStr(Unwrap(settings), "serverPath")
              ELSE None
        sr == IF IsSome(settings) THEN GetStr(Unwrap(settings), "serverRoot")
              ELSE None
    IN  IF IsSome(sp) THEN Ok(server_path_branch(Unwrap(settings), Unwrap(sp)))
        ELSE IF IsSome(sr) THEN Ok(paths_from_root(Unwrap(sr)))
        ELSE IF workmanRoot.ok
             THEN IF serverReadable
                  THEN Ok(paths_from_root(workmanRoot.v))
                  ELSE Err(ServerNotFound(paths_from_root(workmanRoot.v)[2]))
        ELSE paths_from_worktree

resolve_server_paths ==
    LET settings == IF lspSettings.ok THEN lspSettings.v.settings ELSE None
        sp == IF IsSome(settings) THEN GetStr(Unwrap(settings), "serverPath")
              ELSE None
        sr == IF IsSome(settings) THEN GetStr(Unwrap(settings), "serverRoot")
              ELSE None
    IN  IF IsSome(sp) THEN Ok(server_path_branch(Unwrap(settings), Unwrap(sp)))
        ELSE IF IsSome(sr) THEN Ok(paths_from_root(Unwrap(sr)))
        ELSE IF workmanRoot.ok THEN Ok(paths_from_root(workmanRoot.v))
        ELSE paths_from_worktree

\* Variant: the script is put before the config.
default_args_swapped(deno_config, server_path) ==
    <<Lit("run"), Lit("--allow-all"), Lit("--config"), server_path, deno_config>>

\* vec!["run", "--allow-all", "--config", deno_config, server_path]
default_args(deno_config, server_path) ==
    <<Lit("run"), Lit("--allow-all"), Lit("--config"), deno_config, server_path>>

\* Variant: the user's arguments are followed by the resolved paths.
resolve_args_appended(deno_config, server_path) ==
    IF lspSettings.ok
       /\ IsSome(lspSettings.v.binary)
       /\ IsSome(Unwrap(lspSettings.v.binary).arguments)
    THEN Unwrap(Unwrap(lspSettings.v.binary).arguments)
             \o <<deno_config, server_path>>
    ELSE default_args(deno_config, server_path)

resolve_args(deno_config, server_path) ==
    IF lspSettings.ok
    THEN IF IsSome(lspSettings.v.binary)
         THEN IF IsSome(Unwrap(lspSettings.v.binary).arguments)
              THEN Unwrap(Unwrap(lspSettings.v.binary).arguments)
              ELSE default_args(deno_config, server_path)
         ELSE default_args(deno_config, server_path)
    ELSE default_args(deno_config, server_path)

\* Variant: the shell environment is used on every platform.
resolve_env_always_shell == shellEnv

resolve_env ==
    IF platform \in {"Mac", "Linux"} THEN shellEnv ELSE <<>>

\* The call's argument, its locals (deno, paths: None when the `?` returned
\* before reaching them) and its return value.
Frame(language_server_id, deno, paths, result) ==
    [call |-> "language_server_command", id |-> language_server_id,
     deno |-> deno, paths |-> paths, result |-> result]

\* Variant: the server paths are resolved before the interpreter.
language_server_command_paths_first(language_server_id) ==
    LET paths == resolve_server_paths IN
    IF ~paths.ok
    THEN Frame(language_server_id, None, Some(paths), Err(paths.v))
    ELSE LET deno == resolve_deno_binary(language_server_id) IN
         IF ~deno.ok
         THEN Frame(language_server_id, deno, Some(paths), Err(deno.v))
         ELSE Frame(language_server_id, deno, Some(paths),
                    Ok([command |-> deno.v,
                        args |-> resolve_args(paths.v[1], paths.v[2]),
                        env |-> resolve_env]))

language_server_command(language_server_id) ==
    LET deno == resolve_deno_binary(language_server_id) IN
    IF ~deno.ok
    THEN Frame(language_server_id, deno, None, Err(deno.v))
    ELSE LET paths == resolve_server_paths IN
         IF ~paths.ok
         THEN Frame(language_server_id, deno, Some(paths), Err(paths.v))
         ELSE Frame(language_server_id, deno, Some(paths),
                    Ok([command |-> deno.v,
                        args |-> resolve_args(paths.v[1], paths.v[2]),
                        env |-> resolve_env]))

language_server_initialization_options ==
    Ok(IF lspSettings.ok THEN lspSettings.v.initialization_options ELSE None)

language_server_workspace_configuration ==
    Ok(IF lspSettings.ok THEN lspSettings.v.settings ELSE None)

\* --------------------------------------------------------------- inputs
\* A JSON object holding exactly the keys whose value is given.
SettingsObject(sp, dc, sr) ==
    LET given == [serverPath |-> sp, denoConfig |-> dc, serverRoot |-> sr]
        keys == {k \in DOMAIN given : IsSome(given[k])}
    IN  JObject([k \in keys |-> Unwrap(given[k])])

JsonOf(texts) == {None, Some(JNumber)} \cup {Some(JString(t)) : t \in texts}

DenoConfigText == <<"c", SEP, "deno.jsonc">>
DenoOnPath == <<SEP, "usr", SEP, "bin", SEP, "deno">>
ProjectRoot == <<SEP, "project">>
ShellPath == << <<"PATH", "/usr/bin">> >>

\* env::var("WORKMAN_ROOT"): the host hands a WASI guest its environment as
\* UTF-8 strings, so the only error is the variable not being there.
NotPresent == Err("NotPresent")

BinaryPaths == {None, Some(<<>>), Some(<<SEP, "opt", SEP, "deno">>)}
BinaryArguments ==
    {None, Some(<<>>), Some(<<Lit("lsp"), Lit("--stdio"), Lit("-q")>>)}
AllBinary ==
    {None} \cup {Some([path |-> p, arguments |-> a]) :
                    p \in BinaryPaths, a \in BinaryArguments}

WhichResults == {None, Some(DenoOnPath)}
WorktreeRoots == {<<SEP>>, ProjectRoot}
Platforms == {"Mac", "Linux", "Windows"}
ShellEnvs == {<<>>, ShellPath}

NotCalled == [call |-> "none"]

PlainSettings(s) ==
    Ok([binary |-> None, initialization_options |-> None, settings |-> s])

\* Every serverPath and denoConfig, with and without the inputs below them.
InitServerPath ==
    /\ lspSettings \in
         {PlainSettings(Some(SettingsObject(sp, dc, sr))) :
             sp \in JsonOf(TextsUpTo(MaxPathLen)),
             dc \in JsonOf({DenoConfigText}),
             sr \in {None, Some(JString(<<"a">>))}}
    /\ workmanRoot \in {NotPresent, Ok(<<SEP, "a">>)}
    /\ whichDeno = Some(DenoOnPath)
    /\ serverReadable \in BOOLEAN
    /\ rootPath = ProjectRoot
    /\ platform = "Linux"
    /\ shellEnv = ShellPath
    /\ ret = NotCalled

\* Every serverRoot, WORKMAN_ROOT and worktree, under each kind of serverPath.
InitServerRoot ==
    /\ lspSettings \in
         {PlainSettings(s) : s \in {None, Some(JNumber)}} \cup
         {PlainSettings(Some(SettingsObject(sp, None, sr))) :
             sp \in JsonOf({<<"a", SEP, "a", SEP, "a">>}),
             sr \in JsonOf(TextsUpTo(MaxRootLen))}
    /\ workmanRoot \in {NotPresent} \cup {Ok(t) : t \in TextsUpTo(MaxRootLen)}
    /\ whichDeno = Some(DenoOnPath)
    /\ serverReadable \in BOOLEAN
    /\ rootPath \in WorktreeRoots
    /\ platform = "Linux"
    /\ shellEnv = ShellPath
    /\ ret = NotCalled

SomeSettings ==
    {None,
     Some(SettingsObject(None, None, None)),
     Some(SettingsObject(Some(JString(<<"a", SEP, "a", SEP, "a">>)), None, None)),
     Some(SettingsObject(None, None, Some(JString(<<"a">>))))}

\* Every binary override, PATH, platform and shell environment, with one
\* settings document per server-location branch.
InitCommand ==
    /\ lspSettings \in {Err("no settings")} \cup
           {Ok([binary |-> b, initialization_options |-> io, settings |-> s]) :
               b \in AllBinary, io \in {None, Some(JNumber)}, s \in SomeSettings}
    /\ workmanRoot \in {NotPresent, Ok(<<SEP, "a">>)}
    /\ whichDeno \in WhichResults
    /\ serverReadable \in BOOLEAN
    /\ rootPath = ProjectRoot
    /\ platform \in Platforms
    /\ shellEnv \in ShellEnvs
    /\ ret = NotCalled

Init == InitServerPath \/ InitServerRoot \/ InitCommand

\* ------------------------------------------------------------- actions
LanguageServerCommand ==
    \E language_server_id \in LanguageServerIds :
        /\ ret' = language_server_command(language_server_id)
        /\ UNCHANGED inputs

LanguageServerInitializationOptions ==
    /\ ret' = [call |-> "language_server_initialization_options",
               result |-> language_server_initialization_options]
    /\ UNCHANGED inputs

LanguageServerWorkspaceConfiguration ==
    /\ ret' = [call |-> "language_server_workspace_configuration",
               result |-> language_server_workspace_configuration]
    /\ UNCHANGED inputs

Next ==
    \/ LanguageServerCommand
    \/ LanguageServerInitializationOptions
    \/ LanguageServerWorkspaceConfiguration

Spec == Init /\ [][Next]_vars

\* ===================================================================
\* What the claims speak of, read off the inputs and the last return.
\* ===================================================================
Called == ret.call = "language_server_command"
Succeeded == Called /\ ret.result.ok
Failed == Called /\ ~ret.result.ok
PathsResolved == Called /\ IsSome(ret.paths)

GivenBinary == IF lspSettings.ok THEN lspSettings.v.binary ELSE None
GivenBinaryPath == IF IsSome(GivenBinary) THEN Unwrap(GivenBinary).path ELSE None
GivenArguments ==
    IF IsSome(GivenBinary) THEN Unwrap(GivenBinary).arguments ELSE None

\* The string the settings document gives for a key, if it gives one.
GivenString(key) ==
    IF /\ lspSettings.ok
       /\ IsSome(lspSettings.v.settings)
       /\ Unwrap(lspSettings.v.settings).kind = "object"
       /\ key \in DOMAIN Unwrap(lspSettings.v.settings).fields
       /\ Unwrap(lspSettings.v.settings).fields[key].kind = "string"
    THEN Some(Unwrap(lspSettings.v.settings).fields[key].s)
    ELSE None

NoOverrides == IsNone(GivenString("serverPath")) /\ IsNone(GivenString("serverRoot"))

\* rel under the directory R, as a path: R/rel, with no separator added to
\* an empty R or to an R that already ends in one.
Under(R, rel) ==
    IF R = <<>> THEN rel
    ELSE IF R[Len(R)] = SEP THEN R \o rel
    ELSE R \o <<SEP>> \o rel

LayoutConfig == <<"lsp", SEP, "server", SEP, "deno.json">>
LayoutScript == <<"lsp", SEP, "server", SEP, "src", SEP, "server.ts">>
FixedLayout(R) == <<Under(R, LayoutConfig), Under(R, LayoutScript)>>

\* Where the components of P start, and the text of P before position i
\* with the separators that end it removed (a leading root is kept).
ComponentStarts(P) ==
    {i \in 1..Len(P) : P[i] # SEP /\ (i = 1 \/ P[i - 1] = SEP)}
Max(S) == CHOOSE m \in S : \A x \in S : x <= m
DirBefore(P, i) ==
    LET root == IF P[1] = SEP /\ i > 1 THEN 1 ELSE 0
        ends == {k \in 1..(i - 1) : P[k] # SEP} \cup {root}
    IN  SubSeq(P, 1, Max(ends))
\* P has two parent directories when it has two components; the second
\* parent is what precedes the last but one.
HasTwoParents(P) == Cardinality(ComponentStarts(P)) >= 2
SecondParent(P) ==
    LET starts == ComponentStarts(P)
        last == Max(starts)
    IN  DirBefore(P, Max(starts \ {last}))
ConfigBeside(P) ==
    IF HasTwoParents(P)
    THEN Under(SecondParent(P), <<"deno.json">>)
    ELSE <<"deno.json">>

\* -------------------------------------------------------------------
\* C1: when the settings give binary.path = X, the interpreter resolved is
\* X whatever PATH holds: server resolution is always reached, a returned
\* command has executable X, and a failure is never BinaryNotFound.
C1_BinaryPathVerbatim ==
    (Called /\ IsSome(GivenBinaryPath)) =>
        /\ ret.deno.ok
        /\ ret.deno.v = Unwrap(GivenBinaryPath)
        /\ IsSome(ret.paths)
        /\ ret.result.ok => ret.result.v.command = Unwrap(GivenBinaryPath)
        /\ ~ret.result.ok =>
               \A id \in LanguageServerIds :
                   ret.result.v # <<id, ": could not find deno on PATH">>

\* C1 witness: a command returned for binary.path with no deno on PATH.
C1_Witness ==
    /\ Succeeded
    /\ IsSome(GivenBinaryPath)
    /\ IsNone(whichDeno)
    /\ ret.result.v.command = Unwrap(GivenBinaryPath)
    /\ ret.result.v.command # <<>>

\* C2: without binary.path and without deno on PATH the call fails with
\* the BinaryNotFound message of the given id, before server resolution.
C2_BinaryNotFound ==
    (Called /\ IsNone(GivenBinaryPath) /\ IsNone(whichDeno)) =>
        /\ ~ret.result.ok
        /\ ret.result.v = <<ret.id, ": could not find deno on PATH">>
        /\ IsNone(ret.paths)

\* C2 witness: BinaryNotFound reported although the default-convention
\* script is missing too.
C2_Witness ==
    /\ Failed
    /\ IsNone(GivenBinaryPath) /\ IsNone(whichDeno)
    /\ NoOverrides /\ ~workmanRoot.ok /\ ~serverReadable
    /\ ret.result.v[1] = ret.id

\* C3: serverPath, then serverRoot, then WORKMAN_ROOT: the first one given
\* alone decides the pair, and resolution then succeeds.
C3_Precedence ==
    PathsResolved =>
        LET r == Unwrap(ret.paths)
            sp == GivenString("serverPath")
            dc == GivenString("denoConfig")
            sr == GivenString("serverRoot")
        IN  /\ IsSome(sp) =>
                  /\ r.ok
                  /\ r.v[2] = Unwrap(sp)
                  /\ r.v[1] = IF IsSome(dc) THEN Unwrap(dc)
                              ELSE ConfigBeside(Unwrap(sp))
            /\ (IsNone(sp) /\ IsSome(sr)) =>
                  r.ok /\ r.v = FixedLayout(Unwrap(sr))
            /\ (IsNone(sp) /\ IsNone(sr) /\ workmanRoot.ok) =>
                  r.ok /\ r.v = FixedLayout(workmanRoot.v)

\* C3 witness: serverPath decides while serverRoot and WORKMAN_ROOT are
\* given as well and the default script is missing.
C3_Witness ==
    /\ PathsResolved
    /\ IsSome(GivenString("serverPath"))
    /\ IsSome(GivenString("serverRoot"))
    /\ workmanRoot.ok
    /\ ~serverReadable
    /\ Unwrap(ret.paths).ok
    /\ Unwrap(ret.paths).v[2] = Unwrap(GivenString("serverPath"))

\* C4: with serverPath = P the script is P; the config is denoConfig when
\* given, else deno.json in P's second parent, else plain deno.json.
C4_ServerPathConfig ==
    (PathsResolved /\ IsSome(GivenString("serverPath"))) =>
        LET P == Unwrap(GivenString("serverPath"))
            dc == GivenString("denoConfig")
            r == Unwrap(ret.paths)
        IN  /\ r.ok
            /\ r.v[2] = P
            /\ IsSome(dc) => r.v[1] = Unwrap(dc)
            /\ (IsNone(dc) /\ HasTwoParents(P)) =>
                   r.v[1] = Under(SecondParent(P), <<"deno.json">>)
            /\ (IsNone(dc) /\ ~HasTwoParents(P)) => r.v[1] = <<"deno.json">>

\* C4 witness: a serverPath three levels deep, no denoConfig, config found
\* in its second parent.
C4_Witness ==
    /\ PathsResolved
    /\ GivenString("serverPath") = Some(<<"a", SEP, "a", SEP, "a">>)
    /\ IsNone(GivenString("denoConfig"))
    /\ Unwrap(ret.paths).ok
    /\ Unwrap(ret.paths).v = << <<"a", SEP, "deno.json">>,
                                <<"a", SEP, "a", SEP, "a">> >>

\* C5: WORKMAN_ROOT = R without overrides and serverRoot = R without
\* serverPath both give the fixed layout under R, whatever the worktree.
C5_EnvLikeServerRoot ==
    PathsResolved =>
        LET r == Unwrap(ret.paths) IN
        /\ (NoOverrides /\ workmanRoot.ok) =>
               r.ok /\ r.v = FixedLayout(workmanRoot.v)
        /\ (IsNone(GivenString("serverPath")) /\ IsSome(GivenString("serverRoot"))) =>
               r.ok /\ r.v = FixedLayout(Unwrap(GivenString("serverRoot")))

\* C5 witness: WORKMAN_ROOT alone decides, with no script in the worktree.
C5_Witness ==
    /\ PathsResolved
    /\ NoOverrides
    /\ workmanRoot.ok
    /\ workmanRoot.v = <<SEP, "a">>
    /\ ~serverReadable
    /\ Unwrap(ret.paths).ok
    /\ Unwrap(ret.paths).v[2] =
           <<SEP, "a", SEP, "lsp", SEP, "server", SEP, "src", SEP, "server.ts">>

\* C6: with nothing given, the fixed layout under the worktree root is
\* returned when the script can be read, and ServerNotFound naming the
\* script path otherwise.
C6_DefaultConvention ==
    (PathsResolved /\ NoOverrides /\ ~workmanRoot.ok) =>
        LET r == Unwrap(ret.paths) IN
        /\ serverReadable => (r.ok /\ r.v = FixedLayout(rootPath))
        /\ ~serverReadable =>
               /\ ~r.ok
               /\ r.v = <<"Workman LSP not found at ">>
                            \o Under(rootPath, LayoutScript)
               /\ ~ret.result.ok
               /\ ret.result.v = r.v

\* C6 witness: the default convention fails on a missing script.
C6_Witness ==
    /\ PathsResolved /\ NoOverrides /\ ~workmanRoot.ok /\ ~serverReadable
    /\ rootPath = ProjectRoot
    /\ ret.result.v =
           <<"Workman LSP not found at ", SEP, "project", SEP, "lsp", SEP,
             "server", SEP, "src", SEP, "server.ts">>

C8_DefaultArguments ==
    (Succeeded /\ IsNone(GivenArguments)) =>
        ret.result.v.args =
            <<<<"run">>, <<"--allow-all">>, <<"--config">>,
              Unwrap(ret.paths).v[1], Unwrap(ret.paths).v[2]>>

\* C8 witness: a binary section that sets only path, default arguments.
C8_Witness ==
    /\ Succeeded
    /\ IsSome(GivenBinaryPath)
    /\ IsNone(GivenArguments)
    /\ Len(ret.result.v.args) = 5
    /\ ret.result.v.args[4] # ret.result.v.args[5]

\* C9: a returned command's environment is empty on Windows and the
\* worktree's shell environment on Mac and Linux.
C9_EnvironmentByPlatform ==
    Succeeded =>
        /\ platform = "Windows" => ret.result.v.env = <<>>
        /\ platform \in {"Mac", "Linux"} => ret.result.v.env = shellEnv

\* C9 witness: Windows, a non-empty shell environment, empty result.
C9_Witness ==
    /\ Succeeded
    /\ platform = "Windows"
    /\ shellEnv # <<>>
    /\ ret.result.v.env = <<>>

\* C10 as claimed: every returned command has a non-empty executable, and
\* non-empty arguments when binary.arguments is not given.
C10_Original ==
    Succeeded =>
        /\ ret.result.v.command # <<>>
        /\ IsNone(GivenArguments) => ret.result.v.args # <<>>

\* C10 amended: the executable is non-empty unless binary.path is given as
\* the empty string (it is then that empty string); the arguments are
\* non-empty when binary.arguments is not given.
C10_NonEmpty ==
    Succeeded =>
        /\ GivenBinaryPath # Some(<<>>) => ret.result.v.command # <<>>
        /\ GivenBinaryPath = Some(<<>>) => ret.result.v.command = <<>>
        /\ IsNone(GivenArguments) => ret.result.v.args # <<>>

\* C10 witness: a command returned with neither override given.
C10_Witness ==
    /\ Succeeded
    /\ IsNone(GivenBinaryPath)
    /\ IsNone(GivenArguments)
    /\ ret.result.v.command # <<>>
    /\ ret.result.v.args # <<>>

====
